---- MODULE Spec2Model ----
(***************************************************************************)
(* Model of the listing formatting engine of `dir` (src/src/main.rs,       *)
(* src/src/entry.rs), unix build: colorize, sort_entries and the           *)
(* variable-width column layout of show_wide_listing.                      *)
(*                                                                         *)
(* Strings are sequences of code points, Option<T> is <<>> (None) or       *)
(* <<x>> (Some(x)), Ordering is "Less" / "Equal" / "Greater".              *)
(***************************************************************************)
EXTENDS Integers, Sequences, FiniteSets, TLC

VARIABLES
    pc,             \* position in the modelled call
    entries,        \* Vec<Entry> of the current listing
    settings,       \* Settings, read-only once constructed
    color_out,      \* result of colorize for entries[1]
    term_width,     \* terminal width used by determine_column_widths
    column_info,    \* Vec<ColumnInfo>, the triangular table
    fit_n,          \* index n of the fitting loop (0-based)
    column_widths,  \* the Vec<usize> returned by determine_column_widths
    lines,          \* the lines show_wide_listing has printed
    fault,          \* the runtime fault the wide listing ran into, or "none"
    config,         \* the JSON data of the configuration file
    flags,          \* the command-line flags
    args,           \* the command-line path arguments
    dir_idx,        \* directories list_directories is done with
    errors,         \* the error counter of main
    out,            \* what the process has printed, in order
    exit_status,    \* the exit status, -1 while the process runs
    dir_stream      \* the items the ReadDir iterator of list_dir yields

wideVars == <<term_width, column_info, fit_n, column_widths, lines, fault>>

mainVars == <<config, flags, args, dir_idx, errors, out, exit_status>>

vars == <<pc, entries, settings, color_out, wideVars, mainVars, dir_stream>>

\* the values of the variables a specification does not use
IdleWide ==
    /\ term_width = 0
    /\ column_info = <<>>
    /\ fit_n = 0
    /\ column_widths = <<>>
    /\ lines = <<>>
    /\ fault = "none"

IdleMain ==
    /\ config = <<>>
    /\ flags = {}
    /\ args = <<>>
    /\ dir_idx = 0
    /\ errors = 0
    /\ out = <<>>
    /\ exit_status = -1


(***************************************************************************)
(* Constants of the program                                                *)
(***************************************************************************)
FT_FILE == 0
FT_DIR == 1
FT_SYMLINK == 2
FT_FIFO == 3
FT_SOCK == 4
FT_BLOCKDEV == 5
FT_CHARDEV == 6
FT_MAX == 7

FM_EXEC == 0
FM_SUID == 1
FM_SGID == 2
FM_STICKY == 3
FM_MAX == 4

SPACER == 2

\* foreground codes are below this value; bold applies only to them
BOLD_LIMIT == 40

\* code point of the separator get_filename_ext splits on
DOT == 46

None == <<>>
Some(x) == <<x>>

Min(a, b) == IF a < b THEN a ELSE b

(***************************************************************************)
(* Strings                                                                 *)
(***************************************************************************)
\* str::to_lowercase on the ASCII range: 'A'..'Z' map to 'a'..'z'
LowerChar(c) == IF c >= 65 /\ c <= 90 THEN c + 32 ELSE c

to_lowercase(s) == [i \in 1..Len(s) |-> LowerChar(s[i])]

\* Ord for String: lexicographic by code point, a proper prefix is Less
RECURSIVE StrCmpFrom(_, _, _)
StrCmpFrom(a, b, i) ==
    IF i > Len(a) /\ i > Len(b) THEN "Equal"
    ELSE IF i > Len(a) THEN "Less"
    ELSE IF i > Len(b) THEN "Greater"
    ELSE IF a[i] < b[i] THEN "Less"
    ELSE IF a[i] > b[i] THEN "Greater"
    ELSE StrCmpFrom(a, b, i + 1)

StrCmp(a, b) == StrCmpFrom(a, b, 1)

\* get_filename_ext: split on ".", None with a single part, else the last part
get_filename_ext(filename) ==
    LET dots == {i \in 1..Len(filename) : filename[i] = DOT}
    IN  IF dots = {} THEN None
        ELSE LET last == CHOOSE i \in dots : \A j \in dots : j <= i
             IN  Some(SubSeq(filename, last + 1, Len(filename)))

(***************************************************************************)
(* Entry (src/src/entry.rs)                                                *)
(***************************************************************************)
\* An Entry: name, the file type of metadata.mode() & S_IFMT, the special
\* mode bits, whether any of the 0o111 bits is set, size and mtime.
MkEntry(name, ftype, suid, sgid, sticky, xbits, size, mtime) ==
    [name |-> name, ftype |-> ftype, suid |-> suid, sgid |-> sgid,
     sticky |-> sticky, xbits |-> xbits, size |-> size, mtime |-> mtime]

metadata_filetype(e) == e.ftype
is_dir(e) == e.ftype = FT_DIR
is_exec(e) == e.ftype = FT_FILE /\ e.xbits
is_suid(e) == e.suid
is_sgid(e) == e.sgid
is_sticky(e) == e.sticky

(***************************************************************************)
(* Color resolution                                                        *)
(***************************************************************************)
\* format_color: None for code 0, else the (code, bold) pair of the escape
format_color(color, config_bold) ==
    IF color = 0 THEN None
    ELSE IF config_bold /\ color < BOLD_LIMIT THEN Some(<<color, TRUE>>)
    ELSE Some(<<color, FALSE>>)

\* color_by_ext: the code configured for the lowercased extension, if any
color_by_ext(filename, s) ==
    LET ext == get_filename_ext(filename)
    IN  IF ext = None THEN None
        ELSE LET low == to_lowercase(ext[1])
             IN  IF low \in DOMAIN s.color_by_extension
                 THEN Some(s.color_by_extension[low])
                 ELSE None

\* a fault variant: setgid is looked at before setuid
colorize_sgidfirst(e, s) ==
    IF ~s.color THEN None
    ELSE LET filetype == metadata_filetype(e)
         IN  IF filetype = FT_DIR THEN
                 IF is_sticky(e)
                 THEN format_color(s.color_by_mode[FM_STICKY], s.bold)
                 ELSE format_color(s.color_by_filetype[FT_DIR], s.bold)
             ELSE IF filetype = FT_FILE /\ is_sgid(e) THEN
                 format_color(s.color_by_mode[FM_SGID], s.bold)
             ELSE IF filetype = FT_FILE /\ is_suid(e) THEN
                 format_color(s.color_by_mode[FM_SUID], s.bold)
             ELSE IF filetype = FT_FILE /\ is_sticky(e) THEN
                 format_color(s.color_by_mode[FM_STICKY], s.bold)
             ELSE IF filetype = FT_FILE /\ color_by_ext(e.name, s) # None THEN
                 format_color(color_by_ext(e.name, s)[1], s.bold)
             ELSE IF filetype = FT_FILE /\ is_exec(e) THEN
                 format_color(s.color_by_mode[FM_EXEC], s.bold)
             ELSE format_color(s.color_by_filetype[filetype], s.bold)

\* the color of an entry: the first rule that applies decides
colorize(e, s) ==
    IF ~s.color THEN None
    ELSE LET filetype == metadata_filetype(e)
         IN  IF filetype = FT_DIR THEN
                 IF is_sticky(e)
                 THEN format_color(s.color_by_mode[FM_STICKY], s.bold)
                 ELSE format_color(s.color_by_filetype[FT_DIR], s.bold)
             ELSE IF filetype = FT_FILE /\ is_suid(e) THEN
                 format_color(s.color_by_mode[FM_SUID], s.bold)
             ELSE IF filetype = FT_FILE /\ is_sgid(e) THEN
                 format_color(s.color_by_mode[FM_SGID], s.bold)
             ELSE IF filetype = FT_FILE /\ is_sticky(e) THEN
                 format_color(s.color_by_mode[FM_STICKY], s.bold)
             ELSE IF filetype = FT_FILE /\ color_by_ext(e.name, s) # None THEN
                 format_color(color_by_ext(e.name, s)[1], s.bold)
             ELSE IF filetype = FT_FILE /\ is_exec(e) THEN
                 format_color(s.color_by_mode[FM_EXEC], s.bold)
             ELSE format_color(s.color_by_filetype[filetype], s.bold)

(***************************************************************************)
(* Settings                                                                *)
(***************************************************************************)
\* impl Default for Settings
DefaultSettings ==
    [color |-> TRUE, bold |-> TRUE, all |-> FALSE, classify |-> TRUE,
     long |-> TRUE, one |-> FALSE,
     sort_by_size |-> FALSE, sort_by_time |-> FALSE,
     sort_by_extension |-> FALSE, sort_reverse |-> FALSE,
     color_by_extension |-> [x \in {} |-> 0],
     color_by_filetype |-> [ft \in 0..(FT_MAX - 1) |-> 0],
     color_by_mode |-> [m \in 0..(FM_MAX - 1) |-> 0]]

\* values of the variables a specification does not use
NoEntries == <<>>
NoColumnInfo == <<>>

(***************************************************************************)
(* Specification of colorize: one entry, any configuration                 *)
(***************************************************************************)
\* "x", "x.a", "x.A"
ColorNames == {<<120>>, <<120, 46, 97>>, <<120, 46, 65>>}

\* color_by_extension: no entry, or the extension "a" mapped to a code or to 0
ExtMaps == {[x \in {} |-> 0]} \cup {[x \in {<<97>>} |-> c] : c \in {0, 35}}

\* color_by_mode: every slot either unset (0) or a foreground code of its own
ModeTables ==
    {[m \in 0..(FM_MAX - 1) |-> IF m \in S THEN 31 + m ELSE 0] :
        S \in SUBSET (0..(FM_MAX - 1))}

\* color_by_filetype: every slot either unset (0) or a background code of its own
FiletypeTables ==
    {[ft \in 0..(FT_MAX - 1) |-> IF ft \in S THEN 41 + ft ELSE 0] :
        S \in {{}, {FT_FILE}, {FT_DIR}, 0..(FT_MAX - 1)}}

ColorEntries ==
    {MkEntry(n, ft, su, sg, st, x, 0, 0) :
        n \in ColorNames, ft \in 0..(FT_MAX - 1),
        su \in BOOLEAN, sg \in BOOLEAN, st \in BOOLEAN, x \in BOOLEAN}

ColorSettings ==
    {[DefaultSettings EXCEPT !.color = c, !.bold = b,
                             !.color_by_extension = em,
                             !.color_by_filetype = ftt,
                             !.color_by_mode = mt] :
        c \in BOOLEAN, b \in BOOLEAN, em \in ExtMaps,
        ftt \in FiletypeTables, mt \in ModeTables}

InitColor ==
    /\ pc = "start"
    /\ entries \in {<<e>> : e \in ColorEntries}
    /\ settings \in ColorSettings
    /\ color_out = None
    /\ IdleWide
    /\ IdleMain
    /\ dir_stream = <<>>

\* format_wide_entry / format_entry ask colorize for the entry's color
Colorize ==
    /\ pc = "start"
    /\ color_out' = colorize(entries[1], settings)
    /\ pc' = "colored"
    /\ UNCHANGED <<entries, settings, wideVars, mainVars, dir_stream>>

NextColor == Colorize

SpecColor == InitColor /\ [][NextColor]_vars

\* C1: with color enabled, a regular file without setuid/setgid/sticky that
\* is executable and whose lowercased extension is configured resolves to
\* color_by_mode[exec], not to the extension's color.
C1_ExecBeforeExtension ==
    (/\ pc = "colored"
     /\ settings.color
     /\ metadata_filetype(entries[1]) = FT_FILE
     /\ ~is_suid(entries[1]) /\ ~is_sgid(entries[1]) /\ ~is_sticky(entries[1])
     /\ is_exec(entries[1])
     /\ color_by_ext(entries[1].name, settings) # None)
    => color_out = format_color(settings.color_by_mode[FM_EXEC], settings.bold)

(***************************************************************************)
(* Sorting                                                                 *)
(***************************************************************************)
\* Ord for u64 and DateTime
CmpInt(a, b) == IF a < b THEN "Less" ELSE IF a > b THEN "Greater" ELSE "Equal"

\* a fault variant: names compared without lowercasing
sorter_dirs_first_rawnames(a, b) ==
    IF is_dir(a) THEN
        IF is_dir(b) THEN StrCmp(a.name, b.name) ELSE "Less"
    ELSE
        IF is_dir(b) THEN "Greater" ELSE StrCmp(a.name, b.name)

\* a fault variant: the directory bias of the two mixed branches swapped
sorter_dirs_first_dirslast(a, b) ==
    IF is_dir(a) THEN
        IF is_dir(b)
        THEN StrCmp(to_lowercase(a.name), to_lowercase(b.name))
        ELSE "Greater"
    ELSE
        IF is_dir(b)
        THEN "Less"
        ELSE StrCmp(to_lowercase(a.name), to_lowercase(b.name))

sorter_dirs_first(a, b) ==
    IF is_dir(a) THEN
        IF is_dir(b)
        THEN StrCmp(to_lowercase(a.name), to_lowercase(b.name))
        ELSE "Less"
    ELSE
        IF is_dir(b)
        THEN "Greater"
        ELSE StrCmp(to_lowercase(a.name), to_lowercase(b.name))

\* a fault variant: equal extensions do not fall back to the name
sorter_fn_extension_notiebreak(a, b) ==
    IF is_dir(a) \/ is_dir(b) THEN sorter_dirs_first(a, b)
    ELSE LET a_ext == get_filename_ext(a.name)
             b_ext == get_filename_ext(b.name)
         IN  IF a_ext # None THEN
                 IF b_ext # None
                 THEN StrCmp(to_lowercase(a_ext[1]), to_lowercase(b_ext[1]))
                 ELSE "Greater"
             ELSE IF b_ext # None THEN "Less"
             ELSE sorter_dirs_first(a, b)

sorter_fn_extension(a, b) ==
    IF is_dir(a) \/ is_dir(b) THEN sorter_dirs_first(a, b)
    ELSE LET a_ext == get_filename_ext(a.name)
             b_ext == get_filename_ext(b.name)
         IN  IF a_ext # None THEN
                 IF b_ext # None THEN
                     LET order == StrCmp(to_lowercase(a_ext[1]),
                                         to_lowercase(b_ext[1]))
                     IN  IF order = "Equal" THEN sorter_dirs_first(a, b)
                         ELSE order
                 ELSE "Greater"
             ELSE IF b_ext # None THEN "Less"
             ELSE sorter_dirs_first(a, b)

\* a fault variant: reverse inverts the names but keeps directories first
EntryCompare_biaskept(a, b, s) ==
    IF s.sort_by_size THEN
        IF s.sort_reverse THEN CmpInt(b.size, a.size)
        ELSE CmpInt(a.size, b.size)
    ELSE IF s.sort_by_time THEN
        IF s.sort_reverse THEN CmpInt(b.mtime, a.mtime)
        ELSE CmpInt(a.mtime, b.mtime)
    ELSE IF s.sort_by_extension THEN
        IF s.sort_reverse /\ is_dir(a) = is_dir(b)
        THEN sorter_fn_extension(b, a)
        ELSE sorter_fn_extension(a, b)
    ELSE
        IF s.sort_reverse /\ is_dir(a) = is_dir(b)
        THEN sorter_dirs_first(b, a)
        ELSE sorter_dirs_first(a, b)

\* the comparison sort_entries hands to sort_by / sort_by_key:
\* the key (or Reverse(key)) of sort_by_key, or the (swapped) sorter function
EntryCompare(a, b, s) ==
    IF s.sort_by_size THEN
        IF s.sort_reverse THEN CmpInt(b.size, a.size)
        ELSE CmpInt(a.size, b.size)
    ELSE IF s.sort_by_time THEN
        IF s.sort_reverse THEN CmpInt(b.mtime, a.mtime)
        ELSE CmpInt(a.mtime, b.mtime)
    ELSE IF s.sort_by_extension THEN
        IF s.sort_reverse THEN sorter_fn_extension(b, a)
        ELSE sorter_fn_extension(a, b)
    ELSE
        IF s.sort_reverse THEN sorter_dirs_first(b, a)
        ELSE sorter_dirs_first(a, b)

\* a fault variant: an element is moved in front of the elements equal to it
RECURSIVE InsertSorted_unstable(_, _, _)
InsertSorted_unstable(sorted, x, s) ==
    IF sorted = <<>> THEN <<x>>
    ELSE LET last == sorted[Len(sorted)]
         IN  IF EntryCompare(last, x, s) # "Less"
             THEN Append(InsertSorted_unstable(SubSeq(sorted, 1, Len(sorted) - 1), x, s), last)
             ELSE Append(sorted, x)

\* slice::sort_by is a stable sort: x goes behind every element that is not
\* Greater than it
RECURSIVE InsertSorted(_, _, _)
InsertSorted(sorted, x, s) ==
    IF sorted = <<>> THEN <<x>>
    ELSE LET last == sorted[Len(sorted)]
         IN  IF EntryCompare(last, x, s) = "Greater"
             THEN Append(InsertSorted(SubSeq(sorted, 1, Len(sorted) - 1), x, s), last)
             ELSE Append(sorted, x)

RECURSIVE StableSort(_, _)
StableSort(es, s) ==
    IF es = <<>> THEN <<>>
    ELSE InsertSorted(StableSort(SubSeq(es, 1, Len(es) - 1), s), es[Len(es)], s)

ReverseSeq(es) == [i \in 1..Len(es) |-> es[Len(es) + 1 - i]]

\* a fault variant: reverse implemented as an ascending sort followed by
\* a reversal of the vector
sort_entries_reversed(es, s) ==
    IF s.sort_reverse
    THEN ReverseSeq(StableSort(es, [s EXCEPT !.sort_reverse = FALSE]))
    ELSE StableSort(es, s)

\* sort entries in-place
sort_entries(es, s) == StableSort(es, s)

\* the key the if-chain of sort_entries selects
SortKey(s) ==
    IF s.sort_by_size THEN "Size"
    ELSE IF s.sort_by_time THEN "Time"
    ELSE IF s.sort_by_extension THEN "Extension"
    ELSE "Name"

(***************************************************************************)
(* Specification of sort_entries: a listing of up to MaxEntries entries,   *)
(* any combination of the sort flags                                       *)
(***************************************************************************)
MaxEntries == 3

\* "zdir", "a.txt", "B.TXT", "b.txt", "d.s"
N_zdir == <<122, 100, 105, 114>>
N_a_txt == <<97, 46, 116, 120, 116>>
N_B_TXT == <<66, 46, 84, 88, 84>>
N_b_txt == <<98, 46, 116, 120, 116>>
N_d_s == <<100, 46, 115>>
SortNames == {N_zdir, N_a_txt, N_B_TXT, N_b_txt, N_d_s}

\* (size, mtime) of an entry.  A comparison reads one of the two, so they
\* vary together, in opposite orders.
SortStats == {<<5, 1>>, <<900000, 0>>}

SortEntries ==
    {MkEntry(n, ft, FALSE, FALSE, FALSE, FALSE, st[1], st[2]) :
        n \in SortNames, ft \in {FT_FILE, FT_DIR}, st \in SortStats}

SortSettings ==
    {[DefaultSettings EXCEPT !.sort_by_size = bs, !.sort_by_time = bt,
                             !.sort_by_extension = be, !.sort_reverse = r] :
        bs \in BOOLEAN, bt \in BOOLEAN, be \in BOOLEAN, r \in BOOLEAN}

SeqsUpTo(S, n) == UNION {[1..k -> S] : k \in 0..n}

\* what list_dir collects: the entries of one directory, in any order; the
\* names within a directory are distinct
DirListings ==
    {es \in SeqsUpTo(SortEntries, MaxEntries) :
        \A i, j \in 1..Len(es) : i # j => es[i].name # es[j].name}

InitSort ==
    /\ pc = "listed"
    /\ entries \in DirListings
    /\ settings \in SortSettings
    /\ color_out = None
    /\ IdleWide
    /\ IdleMain
    /\ dir_stream = <<>>

\* list_directories / list_files call sort_entries on the collected entries
SortEntriesStep ==
    /\ pc \in {"listed", "sorted"}
    /\ entries' = sort_entries(entries, settings)
    /\ pc' = "sorted"
    /\ UNCHANGED <<settings, color_out, wideVars, mainVars, dir_stream>>

NextSort == SortEntriesStep

SpecSort == InitSort /\ [][NextSort]_vars

LowerName(e) == to_lowercase(e.name)
NameLeq(a, b) == StrCmp(LowerName(a), LowerName(b)) # "Greater"

\* extension order: no extension first, then by lowercased extension
ExtLeq(a, b) ==
    LET ea == get_filename_ext(a.name)
        eb == get_filename_ext(b.name)
    IN  \/ ea = None
        \/ /\ eb # None
           /\ StrCmp(to_lowercase(ea[1]), to_lowercase(eb[1])) # "Greater"

SameExt(a, b) == ExtLeq(a, b) /\ ExtLeq(b, a)

DirsFirst(es) ==
    \A i, j \in 1..Len(es) : (i < j /\ is_dir(es[j])) => is_dir(es[i])

\* C4: after sort_entries with the Name key and sort_reverse off, every
\* directory precedes every non-directory, and within each of the two
\* classes the lowercased names are in non-decreasing code-point order.
C4_NameOrder ==
    (pc = "sorted" /\ SortKey(settings) = "Name" /\ ~settings.sort_reverse)
    => /\ DirsFirst(entries)
       /\ \A i, j \in 1..Len(entries) :
            (i < j /\ is_dir(entries[i]) = is_dir(entries[j]))
            => NameLeq(entries[i], entries[j])

\* the scenario [a.txt, zdir(dir), B.TXT] sorted to [zdir, a.txt, B.TXT]
C4_Witness ==
    /\ pc = "sorted" /\ SortKey(settings) = "Name" /\ ~settings.sort_reverse
    /\ Len(entries) = 3
    /\ entries[1].name = N_zdir /\ is_dir(entries[1])
    /\ entries[2].name = N_a_txt /\ ~is_dir(entries[2]) /\ entries[2].size = 5
    /\ entries[3].name = N_B_TXT /\ ~is_dir(entries[3])
    /\ entries[3].size = 900000

\* C5: sorting by the Name key is idempotent in either direction: a sorted
\* listing is left exactly as it is by another sort_entries.
C5_NameSortIdempotent ==
    [][(pc = "sorted" /\ SortKey(settings) = "Name") => entries' = entries]_vars

\* a sorted listing holding two names that differ only by letter case
C5_Witness ==
    /\ pc = "sorted" /\ SortKey(settings) = "Name"
    /\ \E i, j \in 1..Len(entries) :
         /\ i < j
         /\ entries[i].name # entries[j].name
         /\ LowerName(entries[i]) = LowerName(entries[j])
         /\ is_dir(entries[i]) = is_dir(entries[j])

\* C6 as stated: under every sort key and both directions no non-directory
\* precedes a directory in the result of sort_entries.
C6_DirsFirstEveryKey == pc = "sorted" => DirsFirst(entries)

\* C6 amended: under the Name and Extension keys with sort_reverse off, no
\* non-directory precedes a directory in the result of sort_entries.
C6_DirsFirstNameExt ==
    (/\ pc = "sorted"
     /\ SortKey(settings) \in {"Name", "Extension"}
     /\ ~settings.sort_reverse)
    => DirsFirst(entries)

\* a sorted listing with a directory and a non-directory, directory first
C6_Witness ==
    /\ pc = "sorted"
    /\ SortKey(settings) \in {"Name", "Extension"}
    /\ ~settings.sort_reverse
    /\ \E i, j \in 1..Len(entries) :
         i < j /\ is_dir(entries[i]) /\ ~is_dir(entries[j])
         /\ ~NameLeq(entries[i], entries[j])

\* C7: with sort_reverse the comparator is inverted as a whole: under Name
\* and Extension every directory comes after every non-directory and within
\* each class the names (extensions, for non-directories under Extension)
\* are non-increasing; under Size and Time the keys are non-increasing.
C7_ReverseInvertsAll ==
    (pc = "sorted" /\ settings.sort_reverse)
    => \A i, j \in 1..Len(entries) : i < j =>
         LET a == entries[i]
             b == entries[j]
             key == SortKey(settings)
         IN  /\ key = "Size" => a.size >= b.size
             /\ key = "Time" => a.mtime >= b.mtime
             /\ key \in {"Name", "Extension"} => (is_dir(a) => is_dir(b))
             /\ (key = "Name" /\ is_dir(a) = is_dir(b)) => NameLeq(b, a)
             /\ (key = "Extension" /\ is_dir(a) /\ is_dir(b)) => NameLeq(b, a)
             /\ (key = "Extension" /\ ~is_dir(a) /\ ~is_dir(b)) => ExtLeq(b, a)

\* a reverse-sorted listing with a non-directory in front of a directory
\* whose name is smaller
C7_Witness ==
    /\ pc = "sorted" /\ settings.sort_reverse
    /\ SortKey(settings) \in {"Name", "Extension"}
    /\ \E i, j \in 1..Len(entries) :
         i < j /\ ~is_dir(entries[i]) /\ is_dir(entries[j])
         /\ ~NameLeq(entries[j], entries[i])

\* the key of an entry under the selected sort key is equal to that of x
KeyEqual(a, b, s) ==
    CASE SortKey(s) = "Size" -> a.size = b.size
      [] SortKey(s) = "Time" -> a.mtime = b.mtime
      [] OTHER -> is_dir(a) = is_dir(b) /\ LowerName(a) = LowerName(b)

Occurrences(es, x) == Cardinality({i \in 1..Len(es) : es[i] = x})

EntriesWithKeyOf(es, x, s) ==
    LET Same(e) == KeyEqual(e, x, s) IN SelectSeq(es, Same)

\* C8: sort_entries is stable for every key and both directions: the
\* result is a permutation of the input, and the entries whose keys compare
\* equal appear in the same relative order as in the input.
C8_StableSort ==
    [][pc = "listed" =>
        /\ \A k \in 1..Len(entries) :
             /\ Occurrences(entries', entries[k]) = Occurrences(entries, entries[k])
             /\ EntriesWithKeyOf(entries', entries[k], settings)
                  = EntriesWithKeyOf(entries, entries[k], settings)
        /\ Len(entries') = Len(entries)]_vars

\* a sorted listing with two different entries of equal key next to a
\* third entry of another key
C8_Witness ==
    /\ pc = "sorted"
    /\ \E i, j, k \in 1..Len(entries) :
         /\ i < j
         /\ entries[i] # entries[j]
         /\ KeyEqual(entries[i], entries[j], settings)
         /\ ~KeyEqual(entries[i], entries[k], settings)

\* C9: after sort_entries with the Extension key and sort_reverse off, all
\* directories come first, ordered by lowercased name; among non-directories
\* entries without an extension come before entries with one, entries with
\* extensions are ordered by lowercased extension, and entries with equal
\* lowercased extension by lowercased name.
C9_ExtensionOrder ==
    (pc = "sorted" /\ SortKey(settings) = "Extension" /\ ~settings.sort_reverse)
    => /\ DirsFirst(entries)
       /\ \A i, j \in 1..Len(entries) : i < j =>
            LET a == entries[i]
                b == entries[j]
            IN  /\ (is_dir(a) /\ is_dir(b)) => NameLeq(a, b)
                /\ (~is_dir(a) /\ ~is_dir(b)) =>
                     /\ ExtLeq(a, b)
                     /\ (get_filename_ext(a.name) # None /\ SameExt(a, b))
                          => NameLeq(a, b)

\* a directory with a dotted name in front of two files that are ordered by
\* extension against the order of their names, one of them smaller by name
\* than the directory
C9_Witness ==
    /\ pc = "sorted" /\ SortKey(settings) = "Extension" /\ ~settings.sort_reverse
    /\ Len(entries) = 3
    /\ is_dir(entries[1]) /\ get_filename_ext(entries[1].name) # None
    /\ ~is_dir(entries[2]) /\ ~is_dir(entries[3])
    /\ ~NameLeq(entries[1], entries[3])
    /\ ~NameLeq(entries[2], entries[3])
    /\ ~SameExt(entries[2], entries[3])

(***************************************************************************)
(* Wide listing: display width and column plan                             *)
(***************************************************************************)
\* classify: the code point of the suffix character, if any
classify(e, s) ==
    IF ~s.classify THEN None
    ELSE LET filetype == metadata_filetype(e)
         IN  IF filetype = FT_FILE THEN (IF is_exec(e) THEN Some(42) ELSE None)
             ELSE IF filetype = FT_DIR THEN Some(47)
             ELSE IF filetype = FT_SYMLINK THEN (IF s.long THEN None ELSE Some(64))
             ELSE IF filetype = FT_FIFO THEN Some(124)
             ELSE IF filetype = FT_SOCK THEN Some(61)
             ELSE None

\* a fault variant: the classification character is not counted
display_width_nosuffix(e, s) == Len(e.name)

\* Returns width of filename on screen
display_width(e, s) ==
    Len(e.name) + (IF classify(e, s) # None THEN 1 ELSE 0)

\* Returns minimum column width of all entries
RECURSIVE MinWidthFrom(_, _, _, _)
MinWidthFrom(es, s, k, min_width) ==
    IF k > Len(es) THEN min_width
    ELSE MinWidthFrom(es, s, k + 1,
                      Min(min_width, display_width(es[k], s) + SPACER))

determine_min_column_width(es, s, tw) == MinWidthFrom(es, s, 1, tw)

\* ColumnInfo::new with column_widths = vec![0; u + 1]
NewColumnInfo(u) ==
    [valid |-> TRUE, line_length |-> 0, column_widths |-> [c \in 1..(u + 1) |-> 0]]

\* the column of entry n among i + 1 columns: n / ((len + i) / (i + 1))
ColumnOf(n, len, i) == n \div ((len + i) \div (i + 1))

\* a fault variant: the spacer is added to the last column as well
FitCandidate_spacerall(ci, i, n, len, dw, tw) ==
    IF ~ci.valid THEN ci
    ELSE LET col == ColumnOf(n, len, i)
             width == dw + SPACER
             old_column_width == ci.column_widths[col + 1]
             line_length == ci.line_length + (width - old_column_width)
         IN  IF width >= old_column_width
             THEN [valid |-> line_length < tw,
                   line_length |-> line_length,
                   column_widths |-> [ci.column_widths EXCEPT ![col + 1] = width]]
             ELSE ci

\* a fault variant: a line that fills the terminal exactly still fits
FitCandidate_fitsexact(ci, i, n, len, dw, tw) ==
    IF ~ci.valid THEN ci
    ELSE LET col == ColumnOf(n, len, i)
             width == IF col # i THEN dw + SPACER ELSE dw
             old_column_width == ci.column_widths[col + 1]
             line_length == ci.line_length + (width - old_column_width)
         IN  IF width >= old_column_width
             THEN [valid |-> line_length <= tw,
                   line_length |-> line_length,
                   column_widths |-> [ci.column_widths EXCEPT ![col + 1] = width]]
             ELSE ci

\* a fault variant: the spacer is added to the last column only
FitCandidate_lastspacer(ci, i, n, len, dw, tw) ==
    IF ~ci.valid THEN ci
    ELSE LET col == ColumnOf(n, len, i)
             width == IF col = i THEN dw + SPACER ELSE dw
             old_column_width == ci.column_widths[col + 1]
             line_length == ci.line_length + (width - old_column_width)
         IN  IF width >= old_column_width
             THEN [valid |-> line_length < tw,
                   line_length |-> line_length,
                   column_widths |-> [ci.column_widths EXCEPT ![col + 1] = width]]
             ELSE ci

\* body of the inner loop of the fitting pass for candidate i (i + 1 columns)
\* and entry n of display width dw; sequences are indexed from 1
FitCandidate(ci, i, n, len, dw, tw) ==
    IF ~ci.valid THEN ci
    ELSE LET col == ColumnOf(n, len, i)
             width == IF col # i THEN dw + SPACER ELSE dw
             old_column_width == ci.column_widths[col + 1]
             line_length == ci.line_length + (width - old_column_width)
         IN  IF width >= old_column_width
             THEN [valid |-> line_length < tw,
                   line_length |-> line_length,
                   column_widths |-> [ci.column_widths EXCEPT ![col + 1] = width]]
             ELSE ci

\* a fault variant: the smallest valid candidate is taken
HighestValid_lowest(cinfo) ==
    LET valid == {i \in 0..(Len(cinfo) - 1) : cinfo[i + 1].valid}
    IN  IF valid = {} THEN 0
        ELSE CHOOSE i \in valid : \A j \in valid : i <= j

\* the highest number of columns is the one that is valid; 0 when none is
HighestValid(cinfo) ==
    LET valid == {i \in 0..(Len(cinfo) - 1) : cinfo[i + 1].valid}
    IN  IF valid = {} THEN 0
        ELSE CHOOSE i \in valid : \A j \in valid : j <= i

\* a fault variant: the early return leaves the last terminal column free
SingleColumn_short(tw) == <<tw - 1>>

\* the plan of the two early returns: vec![term_width]
SingleColumn(tw) == <<tw>>

\* format_wide_entry: the escape of the color if any, the name, the
\* classification character if any
format_wide_entry(e, s) ==
    [color |-> colorize(e, s), name |-> e.name, suffix |-> classify(e, s)]

\* number of lines of the wide listing: ceil(len / columns)
NumLines(len, columns) ==
    (len \div columns) + (IF len % columns # 0 THEN 1 ELSE 0)

\* a fault variant: the padding is taken from the width of the next column
PadWidth_nextcolumn(cw, col, dw) == cw[col + 2] - dw

\* column_width - display_width(entry) for the entry printed in column col
PadWidth(cw, col, dw) == cw[col + 1] - dw

\* a fault variant: the column loop stops one column early
LastColumn_early(cw, col) == col + 1 >= Len(cw) \/ cw[col + 1] = 0

\* the second break of the column loop, col already advanced:
\* col >= column_widths.len() || column_widths[col] == 0
LastColumn(cw, col) == col >= Len(cw) \/ cw[col + 1] = 0

\* the column loop of one line, from entry i in column col; a cell is the
\* index of the printed entry, its text and the spaces printed behind it
RECURSIVE PrintLineFrom(_, _, _, _, _, _, _)
PrintLineFrom(es, s, cw, num_lines, i, col, cells) ==
    IF i >= Len(es) THEN [cells |-> cells, fault |-> "entry index out of range"]
    ELSE IF col >= Len(cw) THEN [cells |-> cells, fault |-> "column index out of range"]
    ELSE LET entry == es[i + 1]
             text == format_wide_entry(entry, s)
             dw == display_width(entry, s)
         IN  IF i + num_lines >= Len(es) \/ LastColumn(cw, col + 1)
             THEN [cells |-> Append(cells, [idx |-> i, text |-> text, pad |-> 0]),
                   fault |-> "none"]
             ELSE IF PadWidth(cw, col, dw) < 0
             THEN [cells |-> Append(cells, [idx |-> i, text |-> text, pad |-> 0]),
                   fault |-> "padding underflow"]
             ELSE PrintLineFrom(es, s, cw, num_lines, i + num_lines, col + 1,
                                Append(cells, [idx |-> i, text |-> text,
                                               pad |-> PadWidth(cw, col, dw)]))

(***************************************************************************)
(* Specification of the wide listing: up to MaxWideEntries entries, names  *)
(* of up to MaxNameLen characters or one short of the widest terminal,    *)
(* terminal widths up to MaxTermWidth                                      *)
(***************************************************************************)
MaxWideEntries == 4
MaxNameLen == 3
MaxTermWidth == 12

\* names "x", "xx", ... and one very long name, which with and without its
\* suffix is narrower than, as wide as or wider than the terminal; the
\* layout reads a name only through its length
WideNames ==
    {[k \in 1..l |-> 120] : l \in (1..MaxNameLen) \cup {MaxTermWidth - 1}}

\* directories, whose suffix "/" counts when classify is on
WideEntries ==
    {MkEntry(n, FT_DIR, FALSE, FALSE, FALSE, TRUE, 0, 0) : n \in WideNames}

\* option --wide, with classify on (the default) or switched off by the
\* configuration
WideSettings ==
    {[DefaultSettings EXCEPT !.long = FALSE, !.classify = c] : c \in BOOLEAN}

InitWide ==
    /\ pc = "wide"
    /\ entries \in SeqsUpTo(WideEntries, MaxWideEntries)
    /\ settings \in WideSettings
    /\ color_out = None
    /\ term_width \in 1..MaxTermWidth
    /\ column_info = NoColumnInfo
    /\ fit_n = 0
    /\ column_widths = <<>>
    /\ lines = <<>>
    /\ fault = "none"
    /\ IdleMain
    /\ dir_stream = <<>>

\* show_wide_listing with no entries prints nothing
ShowWideEmpty ==
    /\ pc = "wide"
    /\ entries = <<>>
    /\ pc' = "done"
    /\ UNCHANGED <<entries, settings, color_out, wideVars, mainVars, dir_stream>>

\* determine_column_widths up to the fitting loop: the early returns, or
\* the triangular table; term_width / min_width panics on a zero divisor
DetermineStart ==
    /\ pc = "wide"
    /\ entries # <<>>
    /\ LET min_width == determine_min_column_width(entries, settings, term_width)
       IN  IF Len(entries) <= 1
           THEN /\ column_widths' = SingleColumn(term_width)
                /\ pc' = "plan"
                /\ UNCHANGED <<column_info, fit_n, fault>>
           ELSE IF min_width = 0
           THEN /\ fault' = "division by zero"
                /\ pc' = "panic"
                /\ UNCHANGED <<column_info, fit_n, column_widths>>
           ELSE IF term_width \div min_width <= 1
           THEN /\ column_widths' = SingleColumn(term_width)
                /\ pc' = "plan"
                /\ UNCHANGED <<column_info, fit_n, fault>>
           ELSE /\ column_info' =
                     [u \in 1..(term_width \div min_width) |-> NewColumnInfo(u - 1)]
                /\ fit_n' = 0
                /\ pc' = "fit"
                /\ UNCHANGED <<column_widths, fault>>
    /\ UNCHANGED <<entries, settings, color_out, term_width, lines, mainVars,
                   dir_stream>>

\* one round of the outer fitting loop: entry fit_n against every candidate;
\* column_widths[col] panics on a column past the candidate's last one
FitEntry ==
    /\ pc = "fit"
    /\ fit_n < Len(entries)
    /\ IF \E u \in 1..Len(column_info) :
            /\ column_info[u].valid
            /\ ColumnOf(fit_n, Len(entries), u - 1) > u - 1
       THEN /\ fault' = "column index out of range"
            /\ pc' = "panic"
            /\ UNCHANGED <<column_info, fit_n>>
       ELSE /\ column_info' =
                 [u \in 1..Len(column_info) |->
                    FitCandidate(column_info[u], u - 1, fit_n, Len(entries),
                                 display_width(entries[fit_n + 1], settings),
                                 term_width)]
            /\ fit_n' = fit_n + 1
            /\ UNCHANGED <<pc, fault>>
    /\ UNCHANGED <<entries, settings, color_out, term_width, column_widths,
                   lines, mainVars, dir_stream>>

\* the end of determine_column_widths: the widths of the chosen candidate
ChooseColumns ==
    /\ pc = "fit"
    /\ fit_n = Len(entries)
    /\ column_widths' = column_info[HighestValid(column_info) + 1].column_widths
    /\ pc' = "plan"
    /\ UNCHANGED <<entries, settings, color_out, term_width, column_info,
                   fit_n, lines, fault, mainVars, dir_stream>>

\* the print loop of show_wide_listing: every line in turn, up to the first
\* line that runs into a fault
ShowWideLines ==
    /\ pc = "plan"
    /\ LET num_lines == NumLines(Len(entries), Len(column_widths))
           printed == [line \in 1..num_lines |->
                         PrintLineFrom(entries, settings, column_widths, num_lines,
                                       line - 1, 0, <<>>)]
           bad == {line \in 1..num_lines : printed[line].fault # "none"}
       IN  IF bad = {}
           THEN /\ lines' = [line \in 1..num_lines |-> printed[line].cells]
                /\ pc' = "done"
                /\ UNCHANGED fault
           ELSE LET first == CHOOSE line \in bad : \A other \in bad : line <= other
                IN  /\ lines' = [line \in 1..first |-> printed[line].cells]
                    /\ fault' = printed[first].fault
                    /\ pc' = "panic"
    /\ UNCHANGED <<entries, settings, color_out, term_width, column_info,
                   fit_n, column_widths, mainVars, dir_stream>>

NextWide ==
    ShowWideEmpty \/ DetermineStart \/ FitEntry \/ ChooseColumns \/ ShowWideLines

SpecWide == InitWide /\ [][NextWide]_vars

(***************************************************************************)
(* Specification of the wide listing on wider terminals: the width of the  *)
(* layout scenario and the width assumed when the terminal has none, names *)
(* of 3 to 5 characters                                                    *)
(***************************************************************************)
ScenarioWidths == {20, 80}

InitScenario ==
    /\ pc = "wide"
    /\ entries \in SeqsUpTo({MkEntry([k \in 1..l |-> 120], FT_DIR, FALSE, FALSE, FALSE,
                                     TRUE, 0, 0) : l \in 3..5},
                            MaxWideEntries)
    /\ settings \in WideSettings
    /\ color_out = None
    /\ term_width \in ScenarioWidths
    /\ column_info = NoColumnInfo
    /\ fit_n = 0
    /\ column_widths = <<>>
    /\ lines = <<>>
    /\ fault = "none"
    /\ IdleMain
    /\ dir_stream = <<>>

SpecScenario == InitScenario /\ [][NextWide]_vars

(***************************************************************************)
(* Listing a directory                                                     *)
(***************************************************************************)
\* Entry::is_hidden: the first character of the name is a dot
is_hidden(e) == e.name[1] = DOT

\* what goes to stderr and stdout, in the order it is written
ErrEvent(path) == [fd |-> "stderr", kind |-> "error", path |-> path, names |-> <<>>]
HeaderEvent(path) == [fd |-> "stdout", kind |-> "header", path |-> path, names |-> <<>>]
BlankEvent == [fd |-> "stdout", kind |-> "blank", path |-> <<>>, names |-> <<>>]
\* the lines of one listing; path records whose entries they are, the
\* directory argument or nothing for the file arguments, and is not printed
ListingEvent(path, es) ==
    [fd |-> "stdout", kind |-> "listing", path |-> path,
     names |-> [i \in 1..Len(es) |-> es[i].name]]

\* show_listing: the hidden entries are left out unless option --all; the
\* rest is printed, in the long or in the wide format, in the given order;
\* nothing is printed when no entry is left
show_listing(path, es, s) ==
    LET shown == IF ~s.all THEN SelectSeq(es, LAMBDA e : ~is_hidden(e)) ELSE es
    IN  IF shown = <<>> THEN <<>> ELSE <<ListingEvent(path, shown)>>

\* what fs::read_dir yields for a directory: an item is a DirEntry that
\* converts to an Entry ("entry"), a DirEntry whose conversion fails
\* ("unreadable"), or an error of the iteration itself ("ioerror")
StreamItem(kind, e) == [kind |-> kind, entry |-> e]

\* a fault variant: a failed conversion ends the listing with its error
RECURSIVE ListDirFrom_abort(_, _, _, _)
ListDirFrom_abort(stream, k, acc, reported) ==
    IF k > Len(stream) THEN [ok |-> TRUE, entries |-> acc, reported |-> reported]
    ELSE IF stream[k].kind = "entry"
    THEN ListDirFrom_abort(stream, k + 1, Append(acc, stream[k].entry), reported)
    ELSE [ok |-> FALSE, entries |-> <<>>, reported |-> reported]

\* the loop of list_dir from item k on: entries collected so far, paths
\* reported to stderr so far
RECURSIVE ListDirFrom(_, _, _, _)
ListDirFrom(stream, k, acc, reported) ==
    IF k > Len(stream) THEN [ok |-> TRUE, entries |-> acc, reported |-> reported]
    ELSE IF stream[k].kind = "entry"
    THEN ListDirFrom(stream, k + 1, Append(acc, stream[k].entry), reported)
    ELSE IF stream[k].kind = "unreadable"
    THEN ListDirFrom(stream, k + 1, acc, Append(reported, stream[k].entry.name))
    ELSE [ok |-> FALSE, entries |-> <<>>, reported |-> reported]

\* list_dir: Err when fs::read_dir fails or the iteration yields an error
list_dir(readable, stream) ==
    IF ~readable THEN [ok |-> FALSE, entries |-> <<>>, reported |-> <<>>]
    ELSE ListDirFrom(stream, 1, <<>>, <<>>)

(***************************************************************************)
(* Specification of list_dir and the listing of what it collects: streams  *)
(* of up to MaxDirItems items                                              *)
(***************************************************************************)
MaxDirItems == 3

\* the entries "a.txt", "zdir" (a directory), ".h" and "lost"
DirEntryA == MkEntry(N_a_txt, FT_FILE, FALSE, FALSE, FALSE, FALSE, 0, 0)
DirEntryZ == MkEntry(N_zdir, FT_DIR, FALSE, FALSE, FALSE, TRUE, 0, 0)
DirEntryHidden == MkEntry(<<46, 104>>, FT_FILE, FALSE, FALSE, FALSE, FALSE, 0, 0)
DirEntryLost == MkEntry(<<108, 111, 115, 116>>, FT_FILE, FALSE, FALSE, FALSE, FALSE, 0, 0)

StreamItems ==
    {StreamItem("entry", e) : e \in {DirEntryA, DirEntryZ, DirEntryHidden}}
    \cup {StreamItem("unreadable", DirEntryLost), StreamItem("ioerror", DirEntryLost)}

InitListDir ==
    /\ pc = "opened"
    /\ dir_stream \in SeqsUpTo(StreamItems, MaxDirItems)
    /\ settings \in {[DefaultSettings EXCEPT !.all = a] : a \in BOOLEAN}
    /\ entries = NoEntries
    /\ color_out = None
    /\ IdleWide
    /\ IdleMain

\* list_dir on the opened directory
ListDir ==
    /\ pc = "opened"
    /\ LET res == list_dir(TRUE, dir_stream)
       IN  /\ entries' = res.entries
           /\ out' = out \o [i \in 1..Len(res.reported) |-> ErrEvent(res.reported[i])]
           /\ pc' = IF res.ok THEN "collected" ELSE "failed"
    /\ UNCHANGED <<settings, color_out, wideVars, config, flags, args, dir_idx,
                   errors, exit_status, dir_stream>>

\* sort_entries and show_listing on the collected entries
ShowListing ==
    /\ pc = "collected"
    /\ entries' = sort_entries(entries, settings)
    /\ out' = out \o show_listing(<<>>, sort_entries(entries, settings), settings)
    /\ pc' = "shown"
    /\ UNCHANGED <<settings, color_out, wideVars, config, flags, args, dir_idx,
                   errors, exit_status, dir_stream>>

NextListDir == ListDir \/ ShowListing

SpecListDir == InitListDir /\ [][NextListDir]_vars

(***************************************************************************)
(* Configuration                                                           *)
(***************************************************************************)
\* a serde_json::Value is a pair of a tag ("bool", "str", "num", "null",
\* "obj") and what it holds; an object holds its members, pairs of key and
\* value, in the order of iteration
as_bool(v) == IF v[1] = "bool" THEN Some(v[2]) ELSE None
as_str(v) == IF v[1] = "str" THEN Some(v[2]) ELSE None
as_object(v) == IF v[1] = "obj" THEN Some(v[2]) ELSE None

\* Value::get(key): the member of an object with exactly this key
JGet(data, key) ==
    IF data[1] = "obj" /\ \E k \in 1..Len(data[2]) : data[2][k][1] = key
    THEN Some(data[2][CHOOSE k \in 1..Len(data[2]) : data[2][k][1] = key][2])
    ELSE None

\* a lookup in one of the name tables, sets of pairs of name and code
Lookup(tbl, name) ==
    IF \E p \in tbl : p[1] = name
    THEN Some((CHOOSE p \in tbl : p[1] = name)[2])
    ELSE None

COLOR_BY_NAME ==
    {<<<<110, 111, 114, 109, 97, 108>>, 0>>,                  \* "normal"
     <<<<114, 101, 118, 101, 114, 115, 101>>, 7>>,            \* "reverse"
     <<<<98, 108, 97, 99, 107>>, 30>>,                        \* "black"
     <<<<114, 101, 100>>, 31>>,                               \* "red"
     <<<<103, 114, 101, 101, 110>>, 32>>,                     \* "green"
     <<<<121, 101, 108, 108, 111, 119>>, 33>>,                \* "yellow"
     <<<<98, 108, 117, 101>>, 34>>,                           \* "blue"
     <<<<109, 97, 103, 101, 110, 116, 97>>, 35>>,             \* "magenta"
     <<<<99, 121, 97, 110>>, 36>>,                            \* "cyan"
     <<<<119, 104, 105, 116, 101>>, 37>>,                     \* "white"
     <<<<98, 103, 32, 98, 108, 97, 99, 107>>, 40>>,           \* "bg black"
     <<<<98, 103, 32, 114, 101, 100>>, 41>>,                  \* "bg red"
     <<<<98, 103, 32, 103, 114, 101, 101, 110>>, 42>>,        \* "bg green"
     <<<<98, 103, 32, 121, 101, 108, 108, 111, 119>>, 43>>,   \* "bg yellow"
     <<<<98, 103, 32, 98, 108, 117, 101>>, 44>>,              \* "bg blue"
     <<<<98, 103, 32, 109, 97, 103, 101, 110, 116, 97>>, 45>>, \* "bg magenta"
     <<<<98, 103, 32, 99, 121, 97, 110>>, 46>>,               \* "bg cyan"
     <<<<98, 103, 32, 119, 104, 105, 116, 101>>, 47>>}        \* "bg white"

FILETYPE_BY_NAME ==
    {<<<<102, 105, 108, 101>>, FT_FILE>>,                     \* "file"
     <<<<100, 105, 114, 101, 99, 116, 111, 114, 121>>, FT_DIR>>, \* "directory"
     <<<<115, 121, 109, 108, 105, 110, 107>>, FT_SYMLINK>>,   \* "symlink"
     <<<<102, 105, 102, 111>>, FT_FIFO>>,                     \* "fifo"
     <<<<115, 111, 99, 107>>, FT_SOCK>>,                      \* "sock"
     <<<<98, 108, 111, 99, 107, 100, 101, 118>>, FT_BLOCKDEV>>, \* "blockdev"
     <<<<99, 104, 97, 114, 100, 101, 118>>, FT_CHARDEV>>}     \* "chardev"

FILEMODE_BY_NAME ==
    {<<<<101, 120, 101, 99>>, FM_EXEC>>,                      \* "exec"
     <<<<115, 117, 105, 100>>, FM_SUID>>,                     \* "suid"
     <<<<115, 103, 105, 100>>, FM_SGID>>,                     \* "sgid"
     <<<<115, 116, 105, 99, 107, 121>>, FM_STICKY>>}          \* "sticky"

color_by_name(name) == Lookup(COLOR_BY_NAME, name)

\* the loop of load_config_extension from member k on
RECURSIVE LoadExtensionFrom(_, _, _, _)
LoadExtensionFrom(members, k, color_map, errs) ==
    IF k > Len(members) THEN [map |-> color_map, errors |-> errs]
    ELSE LET key == members[k][1]
             svalue == as_str(members[k][2])
         IN  IF svalue = None
             THEN LoadExtensionFrom(members, k + 1, color_map, errs + 1)
             ELSE IF color_by_name(to_lowercase(svalue[1])) = None
             THEN LoadExtensionFrom(members, k + 1, color_map, errs + 1)
             ELSE LoadExtensionFrom(members, k + 1,
                      [x \in (DOMAIN color_map) \cup {to_lowercase(key)} |->
                         IF x = to_lowercase(key)
                         THEN color_by_name(to_lowercase(svalue[1]))[1]
                         ELSE color_map[x]],
                      errs)

load_config_extension(extension_value) ==
    IF as_object(extension_value) = None
    THEN [map |-> [x \in {} |-> 0], errors |-> 1]
    ELSE LoadExtensionFrom(as_object(extension_value)[1], 1, [x \in {} |-> 0], 0)

\* the loop of load_config_filetype and of load_config_filemode from member
\* k on; index_by_name is the table of the slots
RECURSIVE LoadSlotsFrom(_, _, _, _, _)
LoadSlotsFrom(members, index_by_name, k, color_map, errs) ==
    IF k > Len(members) THEN [map |-> color_map, errors |-> errs]
    ELSE LET slot == Lookup(index_by_name, to_lowercase(members[k][1]))
             svalue == as_str(members[k][2])
         IN  IF slot = None
             THEN LoadSlotsFrom(members, index_by_name, k + 1, color_map, errs + 1)
             ELSE IF svalue = None
             THEN LoadSlotsFrom(members, index_by_name, k + 1, color_map, errs + 1)
             ELSE IF color_by_name(to_lowercase(svalue[1])) = None
             THEN LoadSlotsFrom(members, index_by_name, k + 1, color_map, errs + 1)
             ELSE LoadSlotsFrom(members, index_by_name, k + 1,
                      [color_map EXCEPT ![slot[1]] =
                           color_by_name(to_lowercase(svalue[1]))[1]],
                      errs)

\* a fault variant: a key that names no filetype is passed over in silence
load_config_filetype_lenient(filetype_value) ==
    IF as_object(filetype_value) = None
    THEN [map |-> [ft \in 0..(FT_MAX - 1) |-> 0], errors |-> 1]
    ELSE [map |-> LoadSlotsFrom(as_object(filetype_value)[1], FILETYPE_BY_NAME, 1,
                                [ft \in 0..(FT_MAX - 1) |-> 0], 0).map,
          errors |-> 0]

load_config_filetype(filetype_value) ==
    IF as_object(filetype_value) = None
    THEN [map |-> [ft \in 0..(FT_MAX - 1) |-> 0], errors |-> 1]
    ELSE LoadSlotsFrom(as_object(filetype_value)[1], FILETYPE_BY_NAME, 1,
                       [ft \in 0..(FT_MAX - 1) |-> 0], 0)

load_config_filemode(mode_value) ==
    IF as_object(mode_value) = None
    THEN [map |-> [m \in 0..(FM_MAX - 1) |-> 0], errors |-> 1]
    ELSE LoadSlotsFrom(as_object(mode_value)[1], FILEMODE_BY_NAME, 1,
                       [m \in 0..(FM_MAX - 1) |-> 0], 0)

\* one of the boolean members of load_config_data: the value to store and
\* the number of errors
LoadBool(data, key, default) ==
    IF JGet(data, key) = None THEN [value |-> default, errors |-> 0]
    ELSE IF as_bool(JGet(data, key)[1]) = None
    THEN [value |-> default, errors |-> 1]
    ELSE [value |-> as_bool(JGet(data, key)[1])[1], errors |-> 0]

\* load_config_data up to the test of the error count: the settings built
\* from the data and the number of errors printed
load_config_data(data) ==
    LET d == DefaultSettings
        color == LoadBool(data, "color", d.color)
        bold == LoadBool(data, "bold", d.bold)
        class == LoadBool(data, "classify", d.classify)
        ext == IF JGet(data, "extension") = None
               THEN [map |-> d.color_by_extension, errors |-> 0]
               ELSE load_config_extension(JGet(data, "extension")[1])
        ftype == IF JGet(data, "filetype") = None
                 THEN [map |-> d.color_by_filetype, errors |-> 0]
                 ELSE load_config_filetype(JGet(data, "filetype")[1])
        fmode == IF JGet(data, "mode") = None
                 THEN [map |-> d.color_by_mode, errors |-> 0]
                 ELSE load_config_filemode(JGet(data, "mode")[1])
    IN  [settings |-> [d EXCEPT !.color = color.value, !.bold = bold.value,
                                !.classify = class.value,
                                !.color_by_extension = ext.map,
                                !.color_by_filetype = ftype.map,
                                !.color_by_mode = fmode.map],
         errors |-> color.errors + bold.errors + class.errors
                    + ext.errors + ftype.errors + fmode.errors]

\* the options of the command line, applied in the order of main
ApplyFlags(s0, fl) ==
    LET s1 == IF "all" \in fl THEN [s0 EXCEPT !.all = TRUE] ELSE s0
        s2 == IF "wide" \in fl THEN [s1 EXCEPT !.long = FALSE] ELSE s1
        s3 == IF "no-color" \in fl THEN [s2 EXCEPT !.color = FALSE] ELSE s2
        s4 == IF "one" \in fl
              THEN [s3 EXCEPT !.one = TRUE, !.color = FALSE, !.long = TRUE,
                              !.classify = FALSE]
              ELSE s3
        s5 == IF "size" \in fl THEN [s4 EXCEPT !.sort_by_size = TRUE] ELSE s4
        s6 == IF "time" \in fl THEN [s5 EXCEPT !.sort_by_time = TRUE] ELSE s5
        s7 == IF "extension" \in fl THEN [s6 EXCEPT !.sort_by_extension = TRUE] ELSE s6
    IN  IF "reverse" \in fl THEN [s7 EXCEPT !.sort_reverse = TRUE] ELSE s7

(***************************************************************************)
(* Specification of main: the configuration, the options, up to MaxArgs    *)
(* path arguments                                                          *)
(***************************************************************************)
MaxArgs == 3

TopKeys == {"color", "bold", "classify", "extension", "filetype", "mode"}

\* for every key a value the loader accepts: false, {"A": "Red"},
\* {"Directory": "BLUE"}, {"exec": "bg green"} ...
ValidMember(key) ==
    CASE key \in {"color", "bold", "classify"} -> <<"bool", FALSE>>
      [] key = "extension" -> <<"obj", <<<<<<65>>, <<"str", <<82, 101, 100>>>>>>>>>>
      [] key = "filetype" -> <<"obj", <<<<<<68, 105, 114, 101, 99, 116, 111, 114, 121>>, <<"str", <<66, 76, 85, 69>>>>>>>>>>
      [] key = "mode" -> <<"obj", <<<<<<101, 120, 101, 99>>, <<"str", <<98, 103, 32, 103, 114, 101, 101, 110>>>>>>>>>>

\* ... and values it rejects: a value of the wrong type ("Red", 1, null), a
\* color name that is in no table ("pink"), a key that is in no table
\* ("folder", "exe"), a color that is not a string
InvalidMembers(key) ==
    CASE key \in {"color", "bold", "classify"} -> {<<"str", <<82, 101, 100>>>>, <<"num", 1>>, <<"null", 0>>}
      [] key = "extension" ->
           {<<"str", <<82, 101, 100>>>>,
            <<"obj", <<<<<<97>>, <<"str", <<112, 105, 110, 107>>>>>>>>>>,
            <<"obj", <<<<<<97>>, <<"num", 1>>>>>>>>,
            <<"obj", <<<<<<65>>, <<"str", <<82, 101, 100>>>>>>, <<<<97>>, <<"str", <<112, 105, 110, 107>>>>>>>>>>}
      [] key = "filetype" ->
           {<<"num", 1>>,
            <<"obj", <<<<<<102, 111, 108, 100, 101, 114>>, <<"str", <<66, 76, 85, 69>>>>>>>>>>,
            <<"obj", <<<<<<68, 105, 114, 101, 99, 116, 111, 114, 121>>, <<"str", <<112, 105, 110, 107>>>>>>>>>>,
            <<"obj", <<<<<<68, 105, 114, 101, 99, 116, 111, 114, 121>>, <<"bool", TRUE>>>>>>>>}
      [] key = "mode" ->
           {<<"null", 0>>,
            <<"obj", <<<<<<101, 120, 101>>, <<"str", <<82, 101, 100>>>>>>>>>>,
            <<"obj", <<<<<<101, 120, 101, 99>>, <<"str", <<112, 105, 110, 107>>>>>>>>>>,
            <<"obj", <<<<<<101, 120, 101, 99>>, <<"null", 0>>>>>>>>}

\* the members of an object with the value of one key replaced or added
WithMember(members, key, value) ==
    SelectSeq(members, LAMBDA mv : mv[1] # key) \o <<<<key, value>>>>

\* an object with every member, all of them accepted
FullConfig ==
    <<<<"color", ValidMember("color")>>, <<"bold", ValidMember("bold")>>,
      <<"classify", ValidMember("classify")>>, <<"extension", ValidMember("extension")>>,
      <<"filetype", ValidMember("filetype")>>, <<"mode", ValidMember("mode")>>>>

\* the parsed configuration file, or None when there is none.  Accepted by
\* the loader: no member, all members, a member it does not know, a value
\* that is not an object, one member; rejected: all members, one of them
\* with a value the loader rejects
Configs ==
    {None}
    \cup {Some(c) : c \in
    {<<"obj", <<>>>>, <<"obj", FullConfig>>, <<"obj", <<<<"colour", <<"num", 1>>>>>>>>,
     <<"str", <<82, 101, 100>>>>}
    \cup {<<"obj", <<<<key, ValidMember(key)>>>>>> : key \in TopKeys}
    \cup UNION {{<<"obj", WithMember(FullConfig, key, value)>> :
                   value \in InvalidMembers(key)} : key \in TopKeys}}

\* the name of the configuration file, "dir.json"
ConfigFile == <<100, 105, 114, 46, 106, 115, 111, 110>>

\* a path of the file system: whether it is a directory, whether
\* fs::read_dir opens it and what it yields, whether fs::metadata finds it
FsPath(name, isdir, readable, stream, found) ==
    [name |-> name, is_dir |-> isdir, readable |-> readable, stream |-> stream,
     found |-> found]

\* the directory "d1" with "a.txt" and "zdir"; the directory "d2" with ".h",
\* an entry that fails to convert and "a.txt"; the directory "locked" that
\* fs::read_dir cannot open; the files "f" and ".h"; the path "gone" that
\* does not exist
FsPaths ==
    {FsPath(<<100, 49>>, TRUE, TRUE,
            <<StreamItem("entry", DirEntryA), StreamItem("entry", DirEntryZ)>>, TRUE),
     FsPath(<<100, 50>>, TRUE, TRUE,
            <<StreamItem("entry", DirEntryHidden), StreamItem("unreadable", DirEntryLost),
              StreamItem("entry", DirEntryA)>>, TRUE),
     FsPath(<<108, 111, 99, 107, 101, 100>>, TRUE, FALSE, <<>>, TRUE),
     FsPath(<<102>>, FALSE, FALSE, <<>>, TRUE),
     FsPath(<<46, 104>>, FALSE, FALSE, <<>>, TRUE),
     FsPath(<<103, 111, 110, 101>>, FALSE, FALSE, <<>>, FALSE)}

\* dir_paths and file_paths of main
DirPaths(a) == SelectSeq(a, LAMBDA p : p.is_dir)
FilePaths(a) == SelectSeq(a, LAMBDA p : ~p.is_dir)

\* one round of the loop of list_directories, for directory idx (from 0) of
\* dirs: what it prints and what it adds to the error count
ListDirectoryRound(dirs, idx, s) ==
    LET p == dirs[idx + 1]
        res == list_dir(p.readable, p.stream)
        sorted == sort_entries(res.entries, s)
        reported == [i \in 1..Len(res.reported) |-> ErrEvent(res.reported[i])]
    IN  IF ~res.ok
        THEN [out |-> reported \o <<ErrEvent(p.name)>>,
              errors |-> 1, entries |-> <<>>]
        ELSE [out |-> reported
                      \o (IF Len(dirs) > 1 THEN <<HeaderEvent(p.name)>> ELSE <<>>)
                      \o show_listing(p.name, sorted, s)
                      \o (IF Len(dirs) > 1 /\ idx < Len(dirs) - 1
                          THEN <<BlankEvent>> ELSE <<>>),
              errors |-> 0, entries |-> sorted]

\* the loop of list_files from path k on; Entry::from_path fails on a path
\* that fs::metadata does not find
RECURSIVE ListFilesFrom(_, _, _, _, _)
ListFilesFrom(files, k, acc, printed, errs) ==
    IF k > Len(files) THEN [entries |-> acc, out |-> printed, errors |-> errs]
    ELSE IF ~files[k].found
    THEN ListFilesFrom(files, k + 1, acc, Append(printed, ErrEvent(files[k].name)),
                       errs + 1)
    ELSE ListFilesFrom(files, k + 1,
                       Append(acc, MkEntry(files[k].name, FT_FILE, FALSE, FALSE, FALSE,
                                           FALSE, 0, 0)),
                       printed, errs)

list_files(files, s) ==
    LET got == ListFilesFrom(files, 1, <<>>, <<>>, 0)
        sorted == sort_entries(got.entries, s)
    IN  [out |-> got.out \o show_listing(<<>>, sorted, s),
         errors |-> got.errors, entries |-> sorted]

\* without a path argument the command line lists ".", so there is always
\* at least one path
InitMain ==
    /\ pc = "start"
    /\ config \in Configs
    /\ flags \in {{}, {"all", "reverse"}}
    /\ args \in SeqsUpTo(FsPaths, MaxArgs) \ {<<>>}
    /\ settings = DefaultSettings
    /\ entries = NoEntries
    /\ dir_idx = 0
    /\ errors = 0
    /\ out = <<>>
    /\ exit_status = -1
    /\ color_out = None
    /\ IdleWide
    /\ dir_stream = <<>>

\* load_config and the options: the process ends with status 2 when the
\* loader has printed an error
LoadConfig ==
    /\ pc = "start"
    /\ IF config = None
       THEN /\ settings' = ApplyFlags(DefaultSettings, flags)
            /\ pc' = "dirs"
            /\ UNCHANGED <<out, exit_status>>
       ELSE LET loaded == load_config_data(config[1])
            IN  IF loaded.errors > 0
                THEN /\ out' = [i \in 1..loaded.errors |-> ErrEvent(ConfigFile)]
                     /\ exit_status' = 2
                     /\ pc' = "exit"
                     /\ UNCHANGED settings
                ELSE /\ settings' = ApplyFlags(loaded.settings, flags)
                     /\ pc' = "dirs"
                     /\ UNCHANGED <<out, exit_status>>
    /\ UNCHANGED <<entries, color_out, wideVars, config, flags, args, dir_idx,
                   errors, dir_stream>>

\* one round of the loop of list_directories
ListDirectory ==
    /\ pc = "dirs"
    /\ dir_idx < Len(DirPaths(args))
    /\ LET round == ListDirectoryRound(DirPaths(args), dir_idx, settings)
       IN  /\ out' = out \o round.out
           /\ errors' = errors + round.errors
           /\ entries' = round.entries
    /\ dir_idx' = dir_idx + 1
    /\ UNCHANGED <<pc, settings, color_out, wideVars, config, flags, args,
                   exit_status, dir_stream>>

\* after the last directory: the empty line between directories and files,
\* and list_files
ListFiles ==
    /\ pc = "dirs"
    /\ dir_idx = Len(DirPaths(args))
    /\ LET listed == list_files(FilePaths(args), settings)
       IN  /\ out' = out
                     \o (IF Len(DirPaths(args)) > 0 /\ Len(FilePaths(args)) > 0
                         THEN <<BlankEvent>> ELSE <<>>)
                     \o listed.out
           /\ errors' = errors + listed.errors
           /\ entries' = listed.entries
    /\ pc' = "listed"
    /\ UNCHANGED <<settings, color_out, wideVars, config, flags, args, dir_idx,
                   exit_status, dir_stream>>

\* a fault variant: the error count is the exit status
ExitStatus_count(errs) == errs

\* the end of main: exit(2) when an error was counted, else exit(0)
ExitStatus(errs) == IF errs > 0 THEN 2 ELSE 0

Exit ==
    /\ pc = "listed"
    /\ exit_status' = ExitStatus(errors)
    /\ pc' = "exit"
    /\ UNCHANGED <<entries, settings, color_out, wideVars, config, flags, args,
                   dir_idx, errors, out, dir_stream>>

NextMain == LoadConfig \/ ListDirectory \/ ListFiles \/ Exit

SpecMain == InitMain /\ [][NextMain]_vars

RECURSIVE SumSeq(_)
SumSeq(w) == IF w = <<>> THEN 0 ELSE w[1] + SumSeq(Tail(w))

MaxOf(S) == IF S = {} THEN 0 ELSE CHOOSE x \in S : \A y \in S : y <= x

\* the line length of a plan: the sum of its widths, the last populated
\* column counted without the spacer that a column in front of the last one
\* of the plan includes
PlanLineLength(w) ==
    LET last == MaxOf({j \in 1..Len(w) : w[j] > 0})
    IN  SumSeq(w) - (IF last < Len(w) THEN SPACER ELSE 0)

\* the column-major assignment of the entries to c columns, written out:
\* rows = ceil(n / c), entry idx in column idx / rows, a column as wide as
\* its widest entry plus the spacer, the last of the c columns without it
SimRows(es, c) == (Len(es) + c - 1) \div c

SimColumnWidth(es, s, c, j) ==
    MaxOf({display_width(es[idx + 1], s) + (IF j # c - 1 THEN SPACER ELSE 0) :
             idx \in {x \in 0..(Len(es) - 1) : x \div SimRows(es, c) = j}})

SimLineLength(es, s, c) ==
    SumSeq([j \in 1..c |-> SimColumnWidth(es, s, c, j - 1)])

NumPossible == term_width \div determine_min_column_width(entries, settings, term_width)

\* C2: for n >= 1 entries and every terminal width T the widths of the
\* Column Plan sum, the last populated column counted without a trailing
\* spacer, to at most T.
C2_PlanFitsWidth ==
    (pc = "plan" /\ Len(entries) >= 1)
    => PlanLineLength(column_widths) <= term_width

C10_SingleEntryColumnCovers ==
    (pc = "plan" /\ Len(entries) = 1)
    => /\ Len(column_widths) = 1
       /\ column_widths[1] >= display_width(entries[1], settings)

\* C10 amended: for exactly one entry the plan is one column of width T,
\* for every T and every name length; it is at least as wide as the entry's
\* display width exactly when that width is at most T.
C10_SingleEntryColumnIsT ==
    (pc = "plan" /\ Len(entries) = 1)
    => /\ column_widths = <<term_width>>
       /\ (column_widths[1] >= display_width(entries[1], settings))
            <=> (display_width(entries[1], settings) <= term_width)

\* the plan for one entry that is wider than the terminal
C10_Witness ==
    /\ pc = "plan" /\ Len(entries) = 1
    /\ display_width(entries[1], settings) > term_width

\* three entries of display width 5 on a terminal of width 20
ThreeOfFiveOnTwenty ==
    /\ term_width = 20
    /\ Len(entries) = 3
    /\ \A k \in 1..3 : display_width(entries[k], settings) = 5

\* C11 as stated: for T = 20, spacer 2 and three entries of display width 5
\* the layout has min_width 7 and num_possible 2, chooses 2 columns, and the
\* plan is two columns of width 7 each, 14 in total.
C11_TwoColumnsOfSeven ==
    (pc = "plan" /\ ThreeOfFiveOnTwenty)
    => /\ determine_min_column_width(entries, settings, term_width) = 7
       /\ NumPossible = 2
       /\ column_widths = <<7, 7>>
       /\ SumSeq(column_widths) = 14

\* C11 amended: for T = 20, spacer 2 and three entries of display width 5
\* the layout has min_width 7 and num_possible 2, chooses 2 columns, and the
\* plan is a first column of width 7 (the entry and the spacer) and a last
\* column of width 5 (no spacer), 12 in total.
C11_SevenThenFive ==
    (pc = "plan" /\ ThreeOfFiveOnTwenty)
    => /\ determine_min_column_width(entries, settings, term_width) = 7
       /\ NumPossible = 2
       /\ column_widths = <<7, 5>>
       /\ SumSeq(column_widths) = 12

\* the plan of the scenario has been computed
C11_Witness ==
    /\ pc = "plan" /\ ThreeOfFiveOnTwenty
    /\ Len(column_widths) = 2

\* C12: when n >= 2, num_possible >= 2 and no candidate column count is
\* valid after all entries are processed, the plan is exactly one column
\* whose width is the terminal width T.
C12_FallbackSpansT ==
    (/\ pc = "plan" /\ Len(entries) >= 2
     /\ NumPossible >= 2
     /\ \A u \in 1..Len(column_info) : ~column_info[u].valid)
    => column_widths = <<term_width>>

\* C16: for entries with non-empty names and T >= 1 the layout and the
\* print loop raise no runtime fault: no division by zero in T / min_width,
\* every column index n / ceil(len / (i + 1)) is at most i, every entry index
\* used in printing is below the entry count, and the padding
\* column_width - display_width is never negative.
C16_NoRuntimeFault ==
    /\ fault = "none" /\ pc # "panic"
    /\ (pc = "wide" /\ Len(entries) >= 2)
       => determine_min_column_width(entries, settings, term_width) >= 1
    /\ pc = "fit"
       => \A u \in 1..Len(column_info) : \A n \in 0..(Len(entries) - 1) :
            ColumnOf(n, Len(entries), u - 1) <= u - 1
    /\ pc = "done"
       => \A r \in 1..Len(lines) : \A c \in 1..Len(lines[r]) :
            /\ lines[r][c].idx < Len(entries)
            /\ lines[r][c].pad >= 0

\* a listing printed in several lines of several columns, with padding
C16_Witness ==
    /\ pc = "done" /\ fault = "none"
    /\ Len(lines) >= 2
    /\ Len(column_info) >= 3
    /\ \E r \in 1..Len(lines) : Len(lines[r]) >= 2 /\ lines[r][1].pad > 0

\* the running line length of the layout in c columns once the first m
\* entries are placed: the sum over the columns of the widest entry placed in
\* the column so far, with the spacer in every column but the last of the c
RunLineLength(es, s, c, m) ==
    SumSeq([j \in 1..c |->
              MaxOf({display_width(es[idx + 1], s) + (IF j # c THEN SPACER ELSE 0) :
                       idx \in {x \in 0..(m - 1) : x \div SimRows(es, c) = j - 1}})])

VisibleWidth(cells) ==
    SumSeq([c \in 1..Len(cells) |->
              Len(cells[c].text.name)
              + (IF cells[c].text.suffix # None THEN 1 ELSE 0)
              + cells[c].pad])

\* C18: no printed line is wider than T unless it holds a single entry whose
\* own display width is greater than T; so when every display width is at
\* most T no printed line is wider than T.
C18_LinesFitTerminal ==
    pc = "done"
    => \A r \in 1..Len(lines) :
         VisibleWidth(lines[r]) > term_width
         => /\ Len(lines[r]) = 1
            /\ Len(entries[lines[r][1].idx + 1].name)
               + (IF classify(entries[lines[r][1].idx + 1], settings) # None
                  THEN 1 ELSE 0) > term_width

\* a printed line of two or more entries with their classification
\* characters that leaves one terminal column free
C18_Witness ==
    /\ pc = "done" /\ settings.classify
    /\ \E r \in 1..Len(lines) :
         /\ Len(lines[r]) >= 2
         /\ VisibleWidth(lines[r]) = term_width - 1

\* C19: for a non-empty entry list the print loop prints rows = ceil(n / k)
\* lines, k the length of the plan, the entry printed at row r, column c is
\* the entry at index c * rows + r, and every entry is printed exactly once.
C19_ColumnMajorOnce ==
    (pc = "done" /\ entries # <<>>)
    => LET n == Len(entries)
           k == Len(column_widths)
           rows == (n + k - 1) \div k
       IN  /\ Len(lines) = rows
           /\ \A r \in 1..Len(lines) : \A c \in 1..Len(lines[r]) :
                /\ lines[r][c].idx = (c - 1) * rows + (r - 1)
                /\ lines[r][c].text.name = entries[(c - 1) * rows + r].name
           /\ \A idx \in 0..(n - 1) :
                Cardinality({rc \in (1..Len(lines)) \X (1..k) :
                               /\ rc[2] <= Len(lines[rc[1]])
                               /\ lines[rc[1]][rc[2]].idx = idx}) = 1

\* four entries printed in two lines under a plan of three columns, the
\* third of width zero
C19_Witness ==
    /\ pc = "done" /\ Len(entries) = 4
    /\ Len(column_widths) = 3 /\ column_widths[3] = 0
    /\ Len(lines) = 2 /\ Len(lines[1]) = 2 /\ Len(lines[2]) = 2

\* C20: with color enabled a regular file with setuid set resolves to
\* color_by_mode[setuid] whatever its other bits and extension; otherwise one
\* with setgid resolves to color_by_mode[setgid]; otherwise one with sticky
\* resolves to color_by_mode[sticky].
C20_SetidBitsFirst ==
    (/\ pc = "colored"
     /\ settings.color
     /\ metadata_filetype(entries[1]) = FT_FILE)
    => /\ is_suid(entries[1])
          => color_out = format_color(settings.color_by_mode[FM_SUID], settings.bold)
       /\ (~is_suid(entries[1]) /\ is_sgid(entries[1]))
          => color_out = format_color(settings.color_by_mode[FM_SGID], settings.bold)
       /\ (~is_suid(entries[1]) /\ ~is_sgid(entries[1]) /\ is_sticky(entries[1]))
          => color_out = format_color(settings.color_by_mode[FM_STICKY], settings.bold)

\* an executable setuid, setgid and sticky file with a configured extension,
\* every mode and filetype slot set, colored as setuid
C20_Witness ==
    /\ pc = "colored" /\ settings.color
    /\ metadata_filetype(entries[1]) = FT_FILE
    /\ is_suid(entries[1]) /\ is_sgid(entries[1]) /\ is_sticky(entries[1])
    /\ is_exec(entries[1])
    /\ color_by_ext(entries[1].name, settings) # None
    /\ \A m \in 0..(FM_MAX - 1) : settings.color_by_mode[m] # 0
    /\ settings.color_by_filetype[FT_FILE] # 0
    /\ color_out = Some(<<settings.color_by_mode[FM_SUID], settings.bold>>)

\* C21: with color enabled the first rule that applies is final even when
\* its table code is 0: a sticky directory with color_by_mode[sticky] = 0,
\* and a regular file that is setuid, setgid, sticky or executable and whose
\* mode-table code (of the first of these that it is) is 0, resolves to None
\* whatever color_by_filetype holds.
C21_ZeroCodeIsFinal ==
    LET e == entries[1]
        slot == IF is_suid(e) THEN FM_SUID
                ELSE IF is_sgid(e) THEN FM_SGID
                ELSE IF is_sticky(e) THEN FM_STICKY
                ELSE FM_EXEC
    IN  (/\ pc = "colored"
         /\ settings.color
         /\ \/ /\ metadata_filetype(e) = FT_DIR
               /\ is_sticky(e)
               /\ settings.color_by_mode[FM_STICKY] = 0
            \/ /\ metadata_filetype(e) = FT_FILE
               /\ is_suid(e) \/ is_sgid(e) \/ is_sticky(e) \/ is_exec(e)
               /\ settings.color_by_mode[slot] = 0)
        => color_out = None

C14_EntryErrorSkipsOnlyEntry ==
    LET good == SelectSeq(dir_stream, LAMBDA it : it.kind = "entry")
        bad == SelectSeq(dir_stream, LAMBDA it : it.kind = "unreadable")
        shown == SelectSeq(dir_stream, LAMBDA it :
                     it.kind = "entry" /\ (settings.all \/ ~is_hidden(it.entry)))
    IN  /\ pc = "failed" => \E k \in 1..Len(dir_stream) : dir_stream[k].kind = "ioerror"
        /\ pc = "collected"
           => /\ entries = [i \in 1..Len(good) |-> good[i].entry]
              /\ out = [i \in 1..Len(bad) |-> ErrEvent(bad[i].entry.name)]
        /\ pc = "shown"
           => /\ Len(entries) = Len(good)
              /\ Len(out) = Len(bad) + (IF shown = <<>> THEN 0 ELSE 1)
              /\ shown # <<>>
                 => /\ out[Len(out)].kind = "listing"
                    /\ Len(out[Len(out)].names) = Len(shown)
                    /\ \A i \in 1..Len(shown) : \E j \in 1..Len(shown) :
                         out[Len(out)].names[j] = shown[i].entry.name

\* a directory whose second item fails to convert, listed with the entries
\* in front of it and behind it
C14_Witness ==
    /\ pc = "shown" /\ Len(dir_stream) = 3
    /\ dir_stream[1].kind = "entry" /\ dir_stream[2].kind = "unreadable"
    /\ dir_stream[3].kind = "entry"
    /\ dir_stream[1].entry # dir_stream[3].entry
    /\ Len(out) = 2 /\ out[1] = ErrEvent(DirEntryLost.name)
    /\ Len(out[2].names) = 2

\* the number of errors the loader prints for the configuration
ConfigErrors == IF config = None THEN 0 ELSE load_config_data(config[1]).errors

\* a directory whose listing fails: fs::read_dir or its iteration fails
DirFails(p) == ~list_dir(p.readable, p.stream).ok

\* a directory whose listing prints at least one entry
DirShowsEntries(p) ==
    /\ ~DirFails(p)
    /\ show_listing(p.name, list_dir(p.readable, p.stream).entries, settings) # <<>>

\* the directories handled so far
DirsDone == SubSeq(DirPaths(args), 1, dir_idx)

\* what the directories handled so far have left in the output: the error
\* message of a failed one, the listing of a listed one
DirTrace ==
    SelectSeq(out, LAMBDA ev :
        /\ ev.kind \in {"error", "listing"}
        /\ \E k \in 1..Len(DirsDone) : DirsDone[k].name = ev.path)

\* a failed directory has its error message and nothing on stdout, the
\* count of errors grows by one for each, and the other directories are
\* listed in the order of the arguments
DirectoriesListedInOrder ==
    pc \in {"dirs", "listed", "exit"}
    => LET expected == SelectSeq(DirsDone, LAMBDA p : DirFails(p) \/ DirShowsEntries(p))
       IN  /\ Len(DirTrace) = Len(expected)
           /\ \A i \in 1..Len(expected) :
                /\ DirTrace[i].path = expected[i].name
                /\ DirTrace[i].kind = IF DirFails(expected[i]) THEN "error" ELSE "listing"
           /\ \A i \in 1..Len(out) : \A k \in 1..Len(DirsDone) :
                (DirFails(DirsDone[k]) /\ out[i].path = DirsDone[k].name)
                => out[i].fd = "stderr"
           /\ pc = "dirs"
              => errors = Cardinality({k \in 1..Len(DirsDone) : DirFails(DirsDone[k])})

\* C13 as stated: a directory whose listing fails produces no listing and
\* adds one to the error counter, the remaining directories are listed in
\* argument order, and at the end the error counter is the exit status.
C13_CounterIsExitStatus ==
    /\ DirectoriesListedInOrder
    /\ (pc = "exit" /\ ConfigErrors = 0) => exit_status = errors

\* C13 amended: a directory whose listing fails produces no listing and adds
\* one to the error counter, the remaining directories are listed in
\* argument order, and at the end the exit status is 2 when the error
\* counter is greater than zero and 0 when no error occurred.
C13_ExitTwoOnError ==
    /\ DirectoriesListedInOrder
    /\ (pc = "exit" /\ ConfigErrors = 0)
       => /\ exit_status = (IF errors > 0 THEN 2 ELSE 0)
          /\ errors = Cardinality({k \in 1..Len(DirPaths(args)) :
                                     DirFails(DirPaths(args)[k])})
                      + Cardinality({k \in 1..Len(FilePaths(args)) :
                                       ~FilePaths(args)[k].found})

\* three directories, the second of which cannot be opened; the other two
\* are listed and the process ends with status 2
C13_Witness ==
    /\ pc = "exit" /\ ConfigErrors = 0
    /\ Len(args) = 3 /\ DirPaths(args) = args
    /\ ~DirFails(args[1]) /\ DirFails(args[2]) /\ ~DirFails(args[3])
    /\ args[1] # args[3]
    /\ errors = 1 /\ exit_status = 2
    /\ Len(DirTrace) = 3
    /\ DirTrace[1].kind = "listing" /\ DirTrace[2].kind = "error"
    /\ DirTrace[3].kind = "listing"

\* the invalid values of a configuration, as the loader's messages name
\* them: a color, bold or classify that is not a boolean; an extension,
\* filetype or mode that is not a map; in such a map a color that is not a
\* string or not the name of a color, a key that names no filetype or mode
MemberInvalid(key, v) ==
    IF key \in {"color", "bold", "classify"} THEN v[1] # "bool"
    ELSE \/ v[1] # "obj"
         \/ \E k \in 1..Len(v[2]) :
              \/ v[2][k][2][1] # "str"
              \/ to_lowercase(v[2][k][2][2]) \notin {c[1] : c \in COLOR_BY_NAME}
              \/ /\ key = "filetype"
                 /\ to_lowercase(v[2][k][1]) \notin {f[1] : f \in FILETYPE_BY_NAME}
              \/ /\ key = "mode"
                 /\ to_lowercase(v[2][k][1]) \notin {f[1] : f \in FILEMODE_BY_NAME}

ConfigInvalid ==
    /\ config # None
    /\ config[1][1] = "obj"
    /\ \E k \in 1..Len(config[1][2]) :
         /\ config[1][2][k][1] \in TopKeys
         /\ MemberInvalid(config[1][2][k][1], config[1][2][k][2])

\* C23: for every order of the path arguments the directories are listed
\* first, in argument order and each on its own, then all arguments that are
\* not directories are listed together as one sorted listing; nothing of a
\* file argument precedes a directory listing, and a path that cannot be
\* read as a file is skipped with one more error counted while the other
\* files are still listed.
C23_DirectoriesThenAllFiles ==
    LET files == FilePaths(args)
        found == SelectSeq(files, LAMBDA p : p.found)
        sorted == sort_entries([k \in 1..Len(found) |->
                                  MkEntry(found[k].name, FT_FILE, FALSE, FALSE, FALSE,
                                          FALSE, 0, 0)],
                               settings)
        ofdir == {i \in 1..Len(out) :
                    \E k \in 1..Len(DirsDone) : out[i].path = DirsDone[k].name}
        offile == {i \in 1..Len(out) :
                     \/ out[i].kind = "listing" /\ out[i].path = <<>>
                     \/ \E k \in 1..Len(files) : out[i].path = files[k].name}
        filelistings == {i \in offile : out[i].kind = "listing"}
    IN  /\ DirectoriesListedInOrder
        /\ pc = "dirs" => offile = {}
        /\ (pc \in {"listed", "exit"} /\ ConfigErrors = 0)
           => /\ \A i \in ofdir : \A j \in offile : i < j
              /\ IF found = <<>> THEN filelistings = {}
                 ELSE \E i \in 1..Len(out) :
                        /\ filelistings = {i}
                        /\ out[i].names = [k \in 1..Len(sorted) |-> sorted[k].name]
              /\ \A k \in 1..Len(files) :
                   ~files[k].found
                   => \E i \in offile : out[i] = ErrEvent(files[k].name)
              /\ errors = Cardinality({k \in 1..Len(DirsDone) : DirFails(DirsDone[k])})
                          + Len(files) - Len(found)

\* C15: when the configuration holds at least one invalid value the process
\* exits with a non-zero status before any directory or file is read,
\* sorted, colored or listed, and the settings built from it are never used.
C15_InvalidConfigExits ==
    ConfigInvalid
    => /\ pc \in {"start", "exit"}
       /\ pc = "exit"
          => /\ exit_status = 2
             /\ settings = DefaultSettings
             /\ entries = NoEntries /\ dir_idx = 0 /\ errors = 0
             /\ out # <<>>
             /\ \A i \in 1..Len(out) : out[i] = ErrEvent(ConfigFile)

\* the exit on a configuration of six members, five of them valid, with
\* paths to list on the command line
C15_Witness ==
    /\ pc = "exit" /\ ConfigInvalid
    /\ Len(config[1][2]) = 6
    /\ Cardinality({k \in 1..6 :
                      MemberInvalid(config[1][2][k][1], config[1][2][k][2])}) = 1
    /\ Len(args) >= 2
    /\ exit_status = 2

====
